---- MODULE Spec2Model ----
(***************************************************************************)
(* Model of separate-storage/index.js: the Lambda handler that, for every  *)
(* object uploaded under original/, derives an optimized copy, a           *)
(* thumbnail, three sized copies and a WebP copy and writes them back to   *)
(* the same bucket.                                                        *)
(*                                                                         *)
(* JavaScript strings are sequences of one-character strings, so that      *)
(* replace, split, toLowerCase, startsWith and decodeURIComponent are      *)
(* computed the way the code computes them.  An optional JavaScript value  *)
(* is a sequence of length at most one: None is undefined, Some(v) is v.   *)
(***************************************************************************)
EXTENDS Naturals, Sequences, FiniteSets

VARIABLES
    event,          \* the event the invocation received
    invocation,     \* number of the current invocation of the handler
    pc,             \* position of the handler
    records,        \* let records (line 9)
    idx,            \* position of the for-of loop in records (line 63)
    bucket,         \* const bucket (line 64), optional
    key,            \* const key (line 65)
    originalImage,  \* const originalImage (line 77): [ContentType, Body]
    buffers,        \* the variant buffers already computed for the item
    calls,          \* every S3 call issued so far, with its outcome
    store,          \* the derived objects in the bucket: key -> object
    console,        \* the skip / success lines written by console.log
    response,       \* the value the handler returned, optional
    error           \* the error the handler threw, optional

vars == <<event, invocation, pc, records, idx, bucket, key, originalImage,
          buffers, calls, store, console, response, error>>

None == <<>>
Some(v) == <<v>>

----------------------------------------------------------------------------
(* Bounds *)

\* longest Records array of a batch event
MaxRecords == 2
\* deliveries of the same event (the first one and the redeliveries)
MaxInvocations == 2

----------------------------------------------------------------------------
(* String constants of the source *)

ORIGINAL == <<"o","r","i","g","i","n","a","l","/">>
OPTIMIZED == <<"o","p","t","i","m","i","z","e","d","/">>
THUMBNAILS == <<"t","h","u","m","b","n","a","i","l","s","/">>
SIZES == <<"s","i","z","e","s","/">>
WEBP_DIR == <<"w","e","b","p","/">>
DOT_WEBP == <<".","w","e","b","p">>
IMAGE_ == <<"i","m","a","g","e","/">>

jpg == <<"j","p","g">>
jpeg == <<"j","p","e","g">>
png == <<"p","n","g">>
webp == <<"w","e","b","p">>
gif == <<"g","i","f">>
bmp == <<"b","m","p">>
tiff == <<"t","i","f","f">>

small == <<"s","m","a","l","l">>
medium == <<"m","e","d","i","u","m">>
large == <<"l","a","r","g","e">>

\* const supportedImageFormats
supportedImageFormats == {jpg, jpeg, png, webp, gif, bmp, tiff}

\* const sizes
sizes == <<[name |-> small, width |-> 320],
           [name |-> medium, width |-> 640],
           [name |-> large, width |-> 1024]>>

----------------------------------------------------------------------------
(* String functions of JavaScript, as the handler uses them *)

UpperCase == <<"A","B","C","D","E","F","G","H","I","J","K","L","M",
               "N","O","P","Q","R","S","T","U","V","W","X","Y","Z">>
LowerCase == <<"a","b","c","d","e","f","g","h","i","j","k","l","m",
               "n","o","p","q","r","s","t","u","v","w","x","y","z">>

\* String.prototype.startsWith
StartsWith(s, p) == Len(s) >= Len(p) /\ SubSeq(s, 1, Len(p)) = p

\* String.prototype.indexOf, 1-based; 0 when p does not occur in s
IndexOf(s, p) ==
    LET at == {i \in 1..(Len(s) + 1) : i + Len(p) - 1 <= Len(s)
                                       /\ SubSeq(s, i, i + Len(p) - 1) = p}
    IN  IF at = {} THEN 0 ELSE CHOOSE i \in at : \A j \in at : i <= j

\* String.prototype.lastIndexOf for one character, 1-based; 0 when absent
LastIndexOf(s, c) ==
    LET at == {i \in 1..Len(s) : s[i] = c}
    IN  IF at = {} THEN 0 ELSE CHOOSE i \in at : \A j \in at : j <= i

\* s.replace(p, r) with a string pattern: the first occurrence only
ReplaceFirst(s, p, r) ==
    LET i == IndexOf(s, p)
    IN  IF i = 0 THEN s
        ELSE SubSeq(s, 1, i - 1) \o r \o SubSeq(s, i + Len(p), Len(s))

\* s.split(".").pop(): what follows the last ".", all of s when there is none
SplitPop(s) == SubSeq(s, LastIndexOf(s, ".") + 1, Len(s))

ToLowerChar(c) ==
    IF \E i \in 1..Len(UpperCase) : UpperCase[i] = c
    THEN LowerCase[CHOOSE i \in 1..Len(UpperCase) : UpperCase[i] = c]
    ELSE c

RECURSIVE ToLowerCase(_)
\* String.prototype.toLowerCase
ToLowerCase(s) ==
    IF s = <<>> THEN <<>>
    ELSE <<ToLowerChar(Head(s))>> \o ToLowerCase(Tail(s))

\* Whether /\.[^.]+$/ matches s: a "." followed by at least one character
\* other than "." up to the end of s
SuffixMatches(s) ==
    LET d == LastIndexOf(s, ".") IN d > 0 /\ d < Len(s)

\* s.replace(/\.([^.]+)$/, `-${name}.$1`)
InsertSuffix(s, name) ==
    LET d == LastIndexOf(s, ".")
    IN  IF SuffixMatches(s)
        THEN SubSeq(s, 1, d - 1) \o <<"-">> \o name \o <<".">>
                 \o SubSeq(s, d + 1, Len(s))
        ELSE s

\* s.replace(/\.[^.]+$/, ".webp")
ReplaceSuffix(s) ==
    LET d == LastIndexOf(s, ".")
    IN  IF SuffixMatches(s) THEN SubSeq(s, 1, d - 1) \o DOT_WEBP ELSE s

RECURSIVE PlusToSpace(_)
\* s.replace(/\+/g, " ")
PlusToSpace(s) ==
    IF s = <<>> THEN <<>>
    ELSE <<IF Head(s) = "+" THEN " " ELSE Head(s)>> \o PlusToSpace(Tail(s))

\* The percent escapes decodeURIComponent resolves, for the characters the
\* model's keys are made of: <<two hex digits, the character>>
PercentEscapes == { <<<<"2","B">>, "+">>, <<<<"2","0">>, " ">>,
                    <<<<"2","E">>, ".">>, <<<<"2","F">>, "/">> }

EscapeAt(s, i) ==
    {e \in PercentEscapes : i + 2 <= Len(s) /\ SubSeq(s, i + 1, i + 2) = e[1]}

RECURSIVE DecodeFrom(_, _)
\* decodeURIComponent from position i on: None for a URIError, else Some(text)
DecodeFrom(s, i) ==
    IF i > Len(s) THEN Some(<<>>)
    ELSE IF s[i] # "%"
         THEN LET rest == DecodeFrom(s, i + 1)
              IN  IF rest = None THEN None ELSE Some(<<s[i]>> \o rest[1])
         ELSE IF EscapeAt(s, i) = {} THEN None
              ELSE LET rest == DecodeFrom(s, i + 3)
                       c == (CHOOSE e \in EscapeAt(s, i) : TRUE)[2]
                   IN  IF rest = None THEN None ELSE Some(<<c>> \o rest[1])

\* decodeURIComponent(s)
decodeURIComponent(s) == DecodeFrom(s, 1)

----------------------------------------------------------------------------
(* The inputs: events, stored objects *)

BUCKET == "images"

\* object keys as the event carries them (before decoding)
K_jpg == ORIGINAL \o <<"a",".">> \o jpg
K_jpeg == ORIGINAL \o <<"a",".">> \o jpeg
K_png == ORIGINAL \o <<"a",".">> \o png
K_webp == ORIGINAL \o <<"a",".">> \o webp
K_gif == ORIGINAL \o <<"a",".">> \o gif
K_bmp == ORIGINAL \o <<"a",".">> \o bmp
K_tiff == ORIGINAL \o <<"a",".">> \o tiff
K_upper == ORIGINAL \o <<"a",".","J","P","G">>
K_twodots == ORIGINAL \o <<"a",".","b",".">> \o png
K_nodot == ORIGINAL \o jpg
K_pdf == ORIGINAL \o <<"a",".","p","d","f">>
K_thumb == THUMBNAILS \o <<"a",".">> \o jpg
K_plus == ORIGINAL \o <<"a","+","b",".">> \o jpg
K_escaped == ORIGINAL \o <<"a","%","2","B","b",".">> \o jpg
K_percent == ORIGINAL \o <<"a","%",".">> \o jpg

RawKeys == {K_jpg, K_jpeg, K_png, K_webp, K_gif, K_bmp, K_tiff, K_upper,
            K_twodots, K_nodot, K_pdf, K_thumb, K_plus, K_escaped, K_percent}

\* keys of the records of a batch event
BatchKeys == {K_jpg, K_png, K_gif, K_nodot, K_pdf, K_thumb, K_percent}

TEXT_PLAIN == <<"t","e","x","t","/","p","l","a","i","n">>

\* ContentType of a stored object: undefined, or a string
ContentTypes == {None, Some(IMAGE_ \o jpeg), Some(IMAGE_ \o png), Some(TEXT_PLAIN)}

\* Body of a stored object, as the codec sees it: an image it decodes, an
\* image it decodes whose width exceeds what the WebP format can hold
\* (16383 pixels), or bytes it cannot decode
Bodies == {"ok", "huge", "corrupt"}

BucketDescs == {None, Some([name |-> None]), Some([name |-> Some(BUCKET)])}

ObjectDescs(K) ==
    {None, Some([key |-> None])} \cup {Some([key |-> Some(k)]) : k \in K}

S3Records(K) ==
    {[s3 |-> None]}
    \cup {[s3 |-> Some([bucket |-> Some([name |-> Some(BUCKET)]),
                        object |-> Some([key |-> Some(k)])])] : k \in K}

SeqsUpTo(S, n) == UNION {[1..m -> S] : m \in 0..n}

Blank == [detail |-> None, Records |-> None, test |-> None, foo |-> None]

\* Shape A: { detail: { bucket: { name }, object: { key } } }, whole or in part
EventBridgeEvents ==
    {[Blank EXCEPT !.detail = Some([bucket |-> b, object |-> o])] :
        b \in BucketDescs, o \in ObjectDescs(RawKeys)}

\* Shape B: { Records: [ { s3: { bucket: { name }, object: { key } } }, ... ] }
S3Events ==
    {[Blank EXCEPT !.Records = Some(r)] :
        r \in SeqsUpTo(S3Records(BatchKeys), MaxRecords)}

\* the probe, and events of neither shape
OtherEvents ==
    { Blank,
      [Blank EXCEPT !.test = Some(TRUE)],
      [Blank EXCEPT !.test = Some(FALSE)],
      [Blank EXCEPT !.foo = Some(1)],
      [Blank EXCEPT !.foo = Some(1), !.test = Some(TRUE)],
      [Blank EXCEPT !.detail = Some([bucket |-> Some([name |-> Some(BUCKET)]),
                                     object |-> Some([key |-> Some(K_png)])]),
                    !.Records = Some(<<[s3 |-> None]>>)] }

Events == EventBridgeEvents \cup S3Events \cup OtherEvents

\* Object.keys(event)
ObjectKeys(e) == {f \in DOMAIN e : e[f] # None}

----------------------------------------------------------------------------
(* The codec (sharp), by the outcome of each transform: None when it       *)
(* returns a buffer, Some(err) when it throws                              *)

\* const format = extension === "jpg" ? "jpeg" : extension
Format(extension) == IF extension = jpg THEN jpeg ELSE extension

\* the formats toFormat() encodes, among the extensions the handler admits
SharpOutputFormats == {jpeg, png, webp, gif, tiff}

\* optimizeImage(buffer, extension): metadata() decodes the image, then the
\* switch encodes jpg, jpeg, png and webp and throws for any other extension
optimizeImage(buffer, extension) ==
    IF buffer = "corrupt" THEN Some("CodecError")
    ELSE IF extension \in {jpg, jpeg, png, webp} THEN None
    ELSE Some("Unsupported image format")

\* createThumbnail(buffer, extension): resize to fit 300x300, toFormat
createThumbnail(buffer, extension) ==
    IF buffer = "corrupt" \/ Format(extension) \notin SharpOutputFormats
    THEN Some("CodecError") ELSE None

\* createResizedImage(buffer, extension, width): resize to width, toFormat
createResizedImage(buffer, extension, width) ==
    IF buffer = "corrupt" \/ Format(extension) \notin SharpOutputFormats
    THEN Some("CodecError") ELSE None

\* convertToWebP(buffer): encodes the image at its full size, which the
\* WebP format cannot hold when a side exceeds 16383 pixels
convertToWebP(buffer) == IF buffer = "ok" THEN None ELSE Some("CodecError")

----------------------------------------------------------------------------
(* Locals of the loop body *)

\* const filename = key.replace("original/", "")
Filename(k) == ReplaceFirst(k, ORIGINAL, <<>>)

\* const fileExtension = filename.split(".").pop().toLowerCase()
FileExtension(k) == ToLowerCase(SplitPop(Filename(k)))

\* const contentType = originalImage.ContentType || ""
ContentTypeOrEmpty(image) ==
    IF image.ContentType = None THEN <<>> ELSE image.ContentType[1]

\* Defect: the optimized image is written back in place, over the original
OptimizedKeyInPlace(filename) == ORIGINAL \o filename

\* Key: `optimized/${filename}`
OptimizedKey(filename) == OPTIMIZED \o filename

\* Defect: the thumbnail is filed under the subtype of the fetched
\* content type, thumbnails/<subtype>/<filename>
ThumbnailKeyByType(filename) ==
    THUMBNAILS
    \o SubSeq(ContentTypeOrEmpty(originalImage), Len(IMAGE_) + 1,
              Len(ContentTypeOrEmpty(originalImage)))
    \o <<"/">> \o filename

\* Key: `thumbnails/${filename}`
ThumbnailKey(filename) == THUMBNAILS \o filename

\* Key: `sizes/${sizeFilename}`
SizeKey(filename, name) == SIZES \o InsertSuffix(filename, name)

\* Key: `webp/${webpFilename}`
WebpKey(filename) == WEBP_DIR \o ReplaceSuffix(filename)

\* Defect: the extension is used as the subtype as it is, image/jpg
DerivedContentTypeRaw(fileExtension) == IMAGE_ \o fileExtension

\* ContentType: `image/${fileExtension === "jpg" ? "jpeg" : fileExtension}`
DerivedContentType(fileExtension) ==
    IMAGE_ \o (IF fileExtension = jpg THEN jpeg ELSE fileExtension)

\* ContentType: originalImage.ContentType || `image/${...}`
OptimizedContentType(image, fileExtension) ==
    IF image.ContentType # None /\ image.ContentType[1] # <<>>
    THEN image.ContentType[1]
    ELSE DerivedContentType(fileExtension)

NoImage == [ContentType |-> None, Body |-> "none"]

AllBuffers == {"optimized", "thumbnail", "small", "medium", "large", "webp"}

\* the buffer of the sized variant called name
SizeBuffer(name) ==
    CASE name = small -> "small" [] name = medium -> "medium"
      [] name = large -> "large"

----------------------------------------------------------------------------
(* S3 *)

\* one call of s3.getObject or s3.putObject by the current item, with the
\* ContentType and Body a putObject sends
Call(op, k, contentType, body, status) ==
    [invocation |-> invocation, item |-> idx, op |-> op, Bucket |-> bucket,
     Key |-> k, ContentType |-> contentType, Body |-> body, status |-> status]

\* the bucket after the write c completed
Written(c) ==
    [k \in DOMAIN store \cup {c.Key} |->
        IF k = c.Key THEN [ContentType |-> c.ContentType[1], Body |-> c.Body]
        ELSE store[k]]

\* a completed call: the acknowledgement, or a StorageError
Outcomes == {"ok", "failed"}

----------------------------------------------------------------------------
(* Control *)

\* return { statusCode, body }
Return(statusCode, message, received) ==
    /\ pc' = "done"
    /\ response' = Some([statusCode |-> statusCode,
                         body |-> [message |-> message, received |-> received]])
    /\ error' = error

\* Defect: the catch block logs the error and does not throw it again, so
\* the loop goes on with the next record
ThrowSwallowed(e) ==
    /\ pc' = "loop"
    /\ idx' = idx + 1
    /\ error' = error
    /\ response' = response

\* throw (from the loop body: catch (error) { ...; throw error })
Throw(e) ==
    /\ pc' = "failed"
    /\ error' = Some(e)
    /\ response' = response
    /\ idx' = idx

\* Defect: an ineligible item is thrown as an error instead of skipped
ContinueAsThrow ==
    /\ Throw("Skipped")
    /\ UNCHANGED <<bucket, key, originalImage, buffers>>

\* continue: on to the next record, with fresh locals
Continue ==
    /\ pc' = "loop"
    /\ idx' = idx + 1
    /\ bucket' = None
    /\ key' = <<>>
    /\ originalImage' = NoImage
    /\ buffers' = {}
    /\ response' = response
    /\ error' = error

\* console.log(line, arg) about the current item
Log(line, arg) ==
    console' = Append(console, [invocation |-> invocation, item |-> idx,
                                line |-> line, arg |-> arg])

----------------------------------------------------------------------------
(* The handler *)

Init ==
    /\ event \in Events
    /\ invocation = 1
    /\ pc = "start"
    /\ records = <<>>
    /\ idx = 0
    /\ bucket = None
    /\ key = <<>>
    /\ originalImage = NoImage
    /\ buffers = {}
    /\ calls = <<>>
    /\ store = <<>>
    /\ console = <<>>
    /\ response = None
    /\ error = None

\* lines 9-61: tell the shape of the event, build records
Normalize ==
    /\ pc = "start"
    /\ LET d == event.detail
           isEventBridge == /\ d # None
                            /\ d[1].bucket # None
                            /\ d[1].object # None
           isS3 == event.Records # None /\ Len(event.Records[1]) > 0
           recs == IF isEventBridge
                   THEN <<[s3 |-> Some(
                            [bucket |-> Some([name |-> d[1].bucket[1].name]),
                             object |-> Some([key |-> d[1].object[1].key])])]>>
                   ELSE IF isS3 THEN event.Records[1] ELSE <<>>
       IN  /\ records' = recs
           /\ IF ~isEventBridge /\ ~isS3
              THEN /\ IF event.test = Some(TRUE)
                      THEN Return(200, "Lambda function is working", {})
                      ELSE Return(400, "Invalid event format",
                                  ObjectKeys(event))
                   /\ idx' = idx
              ELSE IF Len(recs) = 0
                   THEN /\ Return(200, "No records to process", {})
                        /\ idx' = idx
                   ELSE /\ pc' = "loop"
                        /\ idx' = 1
                        /\ UNCHANGED <<response, error>>
    /\ UNCHANGED <<event, invocation, bucket, key, originalImage, buffers,
                   calls, store, console>>

\* lines 236-239: the loop is over
ReturnProcessed ==
    /\ pc = "loop"
    /\ idx > Len(records)
    /\ Return(200, "Images processed successfully", {})
    /\ UNCHANGED <<event, invocation, records, idx, bucket, key,
                   originalImage, buffers, calls, store, console>>

\* lines 63-71: the next record, its bucket and key, the prefix check
NextRecord ==
    /\ pc = "loop"
    /\ idx <= Len(records)
    /\ LET s3 == records[idx].s3
           wellFormed == /\ s3 # None
                         /\ s3[1].bucket # None
                         /\ s3[1].object # None
                         /\ s3[1].object[1].key # None
           decoded == IF wellFormed
                      THEN decodeURIComponent(
                               PlusToSpace(s3[1].object[1].key[1]))
                      ELSE None
       IN  IF ~wellFormed
           THEN /\ Throw("TypeError")
                /\ UNCHANGED <<bucket, key, originalImage, buffers, console>>
           ELSE IF decoded = None
           THEN /\ Throw("URIError")
                /\ UNCHANGED <<bucket, key, originalImage, buffers, console>>
           ELSE IF ~StartsWith(decoded[1], ORIGINAL)
           THEN /\ Log("Skipping non-original file", decoded[1])
                /\ Continue
           ELSE /\ bucket' = s3[1].bucket[1].name
                /\ key' = decoded[1]
                /\ pc' = "getObject"
                /\ UNCHANGED <<idx, originalImage, buffers, console,
                               response, error>>
    /\ UNCHANGED <<event, invocation, records, calls, store>>

\* lines 77-82: await s3.getObject(...).promise()
GetObject ==
    /\ pc = "getObject"
    /\ \E outcome \in Outcomes, ct \in ContentTypes, body \in Bodies :
          IF outcome = "failed" \/ bucket = None
          THEN \* no object is returned: one transition, whatever ct, body
               /\ ct = None /\ body = "ok"
               /\ calls' = Append(calls, Call("getObject", key, None, "none",
                                              "failed"))
               /\ Throw("StorageError")
               /\ originalImage' = originalImage
          ELSE /\ calls' = Append(calls, Call("getObject", key, None, "none",
                                              "ok"))
               /\ originalImage' = [ContentType |-> ct, Body |-> body]
               /\ pc' = "checkImage"
               /\ UNCHANGED <<idx, response, error>>
    /\ UNCHANGED <<event, invocation, records, bucket, key, buffers, store,
                   console>>

\* lines 84-107: the extension check, then the content-type check
CheckImage ==
    /\ pc = "checkImage"
    /\ IF FileExtension(key) \notin supportedImageFormats
       THEN /\ Log("Unsupported file format", FileExtension(key))
            /\ Continue
       ELSE IF ~StartsWith(ContentTypeOrEmpty(originalImage), IMAGE_)
       THEN /\ Log("Not an image file based on Content-Type",
                   ContentTypeOrEmpty(originalImage))
            /\ Continue
       ELSE /\ pc' = "optimizeImage"
            /\ UNCHANGED <<idx, bucket, key, originalImage, buffers, console,
                           response, error>>
    /\ UNCHANGED <<event, invocation, records, calls, store>>

\* a transform of the current item: its buffer, or its error thrown
Transform(result, buffer, next) ==
    /\ IF result = None
       THEN /\ buffers' = buffers \cup {buffer}
            /\ pc' = next
            /\ UNCHANGED <<idx, response, error>>
       ELSE /\ Throw(result[1])
            /\ buffers' = buffers
    /\ UNCHANGED <<event, invocation, records, bucket, key, originalImage,
                   calls, store, console>>

\* lines 110-113
OptimizeImage ==
    /\ pc = "optimizeImage"
    /\ Transform(optimizeImage(originalImage.Body, FileExtension(key)),
                 "optimized", "createThumbnail")

\* lines 116-119
CreateThumbnail ==
    /\ pc = "createThumbnail"
    /\ Transform(createThumbnail(originalImage.Body, FileExtension(key)),
                 "thumbnail", "createResizedImage")

\* lines 128-137: the three resizes run concurrently; Promise.all resolves
\* when the last one has, and rejects when the first one throws
CreateResizedImage ==
    /\ pc = "createResizedImage"
    /\ \E i \in DOMAIN sizes :
          /\ SizeBuffer(sizes[i].name) \notin buffers
          /\ Transform(createResizedImage(originalImage.Body,
                                          FileExtension(key), sizes[i].width),
                       SizeBuffer(sizes[i].name),
                       IF \A j \in DOMAIN sizes \ {i} :
                              SizeBuffer(sizes[j].name) \in buffers
                       THEN "putOptimized" ELSE "createResizedImage")

\* await s3.putObject(...).promise() of the current item
PutObject(k, contentType, buffer, next) ==
    /\ \E outcome \in Outcomes :
          /\ calls' = Append(calls, Call("putObject", k, Some(contentType),
                                         buffer, outcome))
          /\ IF outcome = "ok"
             THEN /\ store' = Written(Call("putObject", k, Some(contentType),
                                           buffer, outcome))
                  /\ pc' = next
                  /\ UNCHANGED <<idx, response, error>>
             ELSE /\ Throw("StorageError")
                  /\ store' = store
    /\ UNCHANGED <<event, invocation, records, bucket, key, originalImage,
                   buffers, console>>

\* lines 152-168
PutOptimized ==
    /\ pc = "putOptimized"
    /\ PutObject(OptimizedKey(Filename(key)),
                 OptimizedContentType(originalImage, FileExtension(key)),
                 "optimized", "putThumbnail")

\* lines 171-181
PutThumbnail ==
    /\ pc = "putThumbnail"
    /\ PutObject(ThumbnailKey(Filename(key)),
                 DerivedContentType(FileExtension(key)),
                 "thumbnail", "putSizes")

\* lines 184-202: the three writes are issued together
PutSizes ==
    /\ pc = "putSizes"
    /\ calls' = calls \o
          [i \in DOMAIN sizes |->
              Call("putObject", SizeKey(Filename(key), sizes[i].name),
                   Some(DerivedContentType(FileExtension(key))),
                   SizeBuffer(sizes[i].name), "pending")]
    /\ pc' = "awaitSizes"
    /\ UNCHANGED <<event, invocation, records, idx, bucket, key,
                   originalImage, buffers, store, console, response, error>>

\* the calls that were issued and have not completed
Pending == {n \in DOMAIN calls : calls[n].status = "pending"}

\* lines 184-202: one of the three writes completes; Promise.all resolves
\* when the last one has, and rejects when the first one fails
PutSizeDone ==
    /\ pc = "awaitSizes"
    /\ \E n \in Pending, outcome \in Outcomes :
          /\ calls[n].invocation = invocation
          /\ calls' = [calls EXCEPT ![n].status = outcome]
          /\ IF outcome = "ok"
             THEN /\ store' = Written(calls[n])
                  /\ pc' = IF Pending = {n} THEN "convertToWebP"
                           ELSE "awaitSizes"
                  /\ UNCHANGED <<idx, response, error>>
             ELSE /\ Throw("StorageError")
                  /\ store' = store
    /\ UNCHANGED <<event, invocation, records, bucket, key, originalImage,
                   buffers, console>>

\* a write still in flight when Promise.all rejected completes afterwards
LatePutDone ==
    /\ \E n \in Pending, outcome \in Outcomes :
          /\ pc = "failed"
          /\ calls' = [calls EXCEPT ![n].status = outcome]
          /\ store' = IF outcome = "ok" THEN Written(calls[n]) ELSE store
    /\ UNCHANGED <<event, invocation, pc, records, idx, bucket, key,
                   originalImage, buffers, console, response, error>>

\* line 205
ConvertToWebP ==
    /\ pc = "convertToWebP"
    /\ Transform(convertToWebP(originalImage.Body), "webp", "putWebp")

\* lines 206-216
PutWebp ==
    /\ pc = "putWebp"
    /\ PutObject(WebpKey(Filename(key)), IMAGE_ \o webp, "webp", "processed")

\* lines 218-229, and on to the next record
Processed ==
    /\ pc = "processed"
    /\ Log("Successfully processed", key)
    /\ Continue
    /\ UNCHANGED <<event, invocation, records, calls, store>>

\* the platform delivers the same event again, after a failure (its retry)
\* or after a success (a duplicate notification), once the writes the
\* previous invocation left in flight have settled; the bucket is the same
Reinvoke ==
    /\ pc \in {"done", "failed"}
    /\ invocation < MaxInvocations
    /\ Pending = {}
    /\ invocation' = invocation + 1
    /\ pc' = "start"
    /\ records' = <<>>
    /\ idx' = 0
    /\ bucket' = None
    /\ key' = <<>>
    /\ originalImage' = NoImage
    /\ buffers' = {}
    /\ response' = None
    /\ error' = None
    /\ UNCHANGED <<event, calls, store, console>>

Handler ==
    \/ Normalize
    \/ NextRecord
    \/ GetObject
    \/ CheckImage
    \/ OptimizeImage
    \/ CreateThumbnail
    \/ CreateResizedImage
    \/ PutOptimized
    \/ PutThumbnail
    \/ PutSizes
    \/ PutSizeDone
    \/ LatePutDone
    \/ ConvertToWebP
    \/ PutWebp
    \/ Processed
    \/ ReturnProcessed

Next == Handler

\* one invocation of the handler, on any event
Spec == Init /\ [][Next]_vars

NextRedelivery == Handler \/ Reinvoke

\* keys of the redelivered events
RedeliveryKeys == {K_jpg, K_upper, K_twodots, K_nodot, K_gif, K_pdf, K_escaped}

\* a direct notification of one object
InitRedelivery ==
    /\ Init
    /\ event \in {[Blank EXCEPT !.detail =
                      Some([bucket |-> Some([name |-> Some(BUCKET)]),
                            object |-> Some([key |-> Some(k)])])] :
                      k \in RedeliveryKeys}

\* the same event delivered up to MaxInvocations times
SpecRedelivery == InitRedelivery /\ [][NextRedelivery]_vars

----------------------------------------------------------------------------
(* What the properties are stated with: the calls of one item, and the     *)
(* names the key layout prescribes, computed from the source key without   *)
(* the handler's own string operations                                     *)

\* the calls of item i of invocation v
CallsOf(v, i, op) ==
    {n \in DOMAIN calls : /\ calls[n].invocation = v
                          /\ calls[n].item = i
                          /\ calls[n].op = op}

PutsOf(v, i) == CallsOf(v, i, "putObject")

PutKeys(v, i) == {calls[n].Key : n \in PutsOf(v, i)}

\* the key item i of invocation v fetched
SourceKeys(v, i) == {calls[n].Key : n \in CallsOf(v, i, "getObject")}

\* the calls of the item the handler is at
Current(n) == calls[n].invocation = invocation /\ calls[n].item = idx

\* <filename>: the key without its original/ prefix
SourceFilename(k) == SubSeq(k, Len(ORIGINAL) + 1, Len(k))

\* where the final extension of f begins: the position of its last "."
LastDot(f) ==
    {d \in 1..Len(f) : f[d] = "." /\ \A j \in (d + 1)..Len(f) : f[j] # "."}

Stem(f, d) == SubSeq(f, 1, d - 1)
Ext(f, d) == SubSeq(f, d + 1, Len(f))

\* the extension of the key k, lower-cased (all of the filename when it has
\* no ".")
LowerExtension(k) ==
    LET f == SourceFilename(k)
    IN  IF LastDot(f) = {} THEN ToLowerCase(f)
        ELSE ToLowerCase(Ext(f, CHOOSE d \in LastDot(f) : TRUE))

\* the six destination keys of the layout for the source key k
LayoutKeys(k) ==
    LET f == SourceFilename(k)
    IN  {OPTIMIZED \o f, THUMBNAILS \o f}
        \cup {SIZES \o Stem(f, d) \o <<"-">> \o nm \o <<".">> \o Ext(f, d) :
                 d \in LastDot(f), nm \in {small, medium, large}}
        \cup {WEBP_DIR \o Stem(f, d) \o DOT_WEBP : d \in LastDot(f)}

\* the content type of the target format of the source key k
LayoutContentType(k) ==
    IF LowerExtension(k) \in {jpg, jpeg} THEN IMAGE_ \o jpeg
    ELSE IMAGE_ \o LowerExtension(k)

\* the item the handler is at passed the three eligibility checks
CurrentEligible ==
    /\ StartsWith(key, ORIGINAL)
    /\ LowerExtension(key) \in {jpg, jpeg, png, webp, gif, bmp, tiff}
    /\ originalImage.ContentType # None
    /\ StartsWith(originalImage.ContentType[1], IMAGE_)

----------------------------------------------------------------------------
(* C1 *)

\* C1: no putObject targets a key the handler fetched or any key under
\* original/, no call other than getObject and putObject is issued (no
\* delete), every call on a key under original/ is a getObject, and no
\* object of the bucket written by the handler lies under original/.
C1_SourceNeverWritten ==
    /\ \A n \in DOMAIN calls :
          /\ calls[n].op \in {"getObject", "putObject"}
          /\ StartsWith(calls[n].Key, ORIGINAL) => calls[n].op = "getObject"
          /\ calls[n].op = "putObject" =>
                \A m \in DOMAIN calls :
                    calls[m].op = "getObject" => calls[m].Key # calls[n].Key
    /\ \A k \in DOMAIN store : ~StartsWith(k, ORIGINAL)

\* an item was fetched and all of its variants were written
C1_Witness ==
    \E n \in DOMAIN calls :
        /\ calls[n].op = "getObject" /\ calls[n].status = "ok"
        /\ Cardinality({m \in PutsOf(calls[n].invocation, calls[n].item) :
                           calls[m].status = "ok"}) = 6

----------------------------------------------------------------------------
(* C2 *)

\* C2: an eligible item whose fetch and writes did not fail ends with
\* exactly six writes, to exactly the six keys of the layout.  Stated for
\* the item the handler is at when it has ended (processed, or failed), and
\* only for an image the codec decodes and that fits every target format.
C2_SixWrites ==
    ( /\ pc \in {"processed", "failed"}
      /\ CurrentEligible
      /\ originalImage.Body = "ok"
      /\ \A n \in DOMAIN calls : Current(n) => calls[n].status = "ok" )
    => /\ Cardinality(PutsOf(invocation, idx)) = 6
       /\ PutKeys(invocation, idx) = LayoutKeys(key)

----------------------------------------------------------------------------
(* C4 *)

ShapeA(e) ==
    /\ e.detail # None
    /\ e.detail[1].bucket # None /\ e.detail[1].bucket[1].name # None
    /\ e.detail[1].object # None /\ e.detail[1].object[1].key # None

WellFormedRecord(r) ==
    /\ r.s3 # None
    /\ r.s3[1].bucket # None /\ r.s3[1].bucket[1].name # None
    /\ r.s3[1].object # None /\ r.s3[1].object[1].key # None

ShapeB(e) ==
    /\ e.Records # None
    /\ Len(e.Records[1]) > 0
    /\ \A i \in DOMAIN e.Records[1] : WellFormedRecord(e.Records[1][i])

Probe(e) == e.test = Some(TRUE)

\* C4: an event that is neither of shape A, nor of shape B, nor the probe is
\* rejected: no storage call, no error, and the response is 400 with the
\* event's top-level keys.
C4_InvalidRejected ==
    (~ShapeA(event) /\ ~ShapeB(event) /\ ~Probe(event))
    => /\ calls = <<>>
       /\ error = None
       /\ pc = "done" =>
             /\ response[1].statusCode = 400
             /\ response[1].body.received = {f \in DOMAIN event :
                                                event[f] # None}

----------------------------------------------------------------------------
(* C8 *)

\* C8: a batch event whose Records array is empty (the normalized list of
\* work items is empty) is answered with 200 and no storage call.
C8_EmptyListSucceeds ==
    (event.detail = None /\ event.Records = Some(<<>>))
    => /\ calls = <<>>
       /\ error = None
       /\ pc = "done" => response[1].statusCode = 200

----------------------------------------------------------------------------
(* C9 *)

\* C9: no putObject of an item is issued before all six transforms of that
\* item have completed, and an item one of whose transforms failed has no
\* variant written.
C9_TransformsJoinedBeforeWrites ==
    /\ \A n \in DOMAIN calls :
          (Current(n) /\ calls[n].op = "putObject") => buffers = AllBuffers
    /\ (pc = "failed" /\ error \in {Some("CodecError"),
                                    Some("Unsupported image format")})
       => PutsOf(invocation, idx) = {}

----------------------------------------------------------------------------
(* C10 *)

\* C10: the destination keys of the writes of one item are pairwise
\* distinct.
C10_KeysDistinct ==
    \A m, n \in DOMAIN calls :
        ( /\ m # n
          /\ calls[m].op = "putObject" /\ calls[n].op = "putObject"
          /\ calls[m].invocation = calls[n].invocation
          /\ calls[m].item = calls[n].item )
        => calls[m].Key # calls[n].Key

----------------------------------------------------------------------------
(* C3 *)

\* the decoded key of record i, when the record carries one
ItemKey(i) ==
    IF WellFormedRecord(records[i])
    THEN decodeURIComponent(PlusToSpace(records[i].s3[1].object[1].key[1]))
    ELSE None

\* the handler is at a check that the item fails: the prefix check at the
\* head of the loop, or the extension and content-type checks after the fetch
FailsCheck ==
    \/ /\ pc = "loop"
       /\ idx <= Len(records)
       /\ ItemKey(idx) # None
       /\ ~StartsWith(ItemKey(idx)[1], ORIGINAL)
    \/ /\ pc = "checkImage"
       /\ \/ LowerExtension(key) \notin {jpg, jpeg, png, webp, gif, bmp, tiff}
          \/ originalImage.ContentType = None
          \/ ~StartsWith(originalImage.ContentType[1], IMAGE_)

SkipLines == {"Skipping non-original file", "Unsupported file format",
              "Not an image file based on Content-Type"}

\* the items of this invocation that the handler logged as skipped
Skipped ==
    {console[n].item : n \in {m \in DOMAIN console :
                                 /\ console[m].invocation = invocation
                                 /\ console[m].line \in SkipLines}}

\* C3: an item that fails an eligibility check is skipped: the step that
\* checks it issues no call, writes nothing, raises no error and moves the
\* loop to the next record; a skipped item has no write at all; and an
\* invocation that skipped every one of its items returns 200.
C3_IneligibleSkipped ==
    /\ [][FailsCheck =>
             /\ pc' = "loop" /\ idx' = idx + 1
             /\ calls' = calls /\ store' = store
             /\ error' = None /\ response' = None
             /\ idx \in Skipped']_vars
    /\ [](\A i \in Skipped : PutsOf(invocation, i) = {} /\ i < idx)
    /\ []((pc = "done" /\ records # <<>> /\ Skipped = DOMAIN records)
             => response[1].statusCode = 200)

\* a batch of two items, skipped for different reasons, was answered
C3_Witness ==
    /\ pc = "done"
    /\ Len(records) = 2
    /\ Skipped = {1, 2}
    /\ \E m, n \in DOMAIN console : console[m].line # console[n].line
    /\ response[1].statusCode = 200

----------------------------------------------------------------------------
(* C5 *)

\* C5: a failed fetch or write makes the handler throw that error at that
\* item, and so does a failed transform (an image the codec cannot decode
\* gets no further than optimizeImage, one too large for WebP no further
\* than convertToWebP); once the handler has thrown there is an error and
\* no response, and no item after the failing one was fetched or written;
\* every write that completed is in the bucket, whatever failed afterwards.
C5_ErrorAborts ==
    /\ \A n \in DOMAIN calls :
          /\ (calls[n].invocation = invocation /\ calls[n].status = "failed")
                => /\ pc = "failed" /\ idx = calls[n].item
                   /\ error = Some("StorageError")
          /\ (calls[n].op = "putObject" /\ calls[n].status = "ok")
                => calls[n].Key \in DOMAIN store
    /\ (CurrentEligible /\ originalImage.Body = "corrupt")
          => /\ pc \in {"checkImage", "optimizeImage", "failed"}
             /\ pc = "failed" => error = Some("CodecError")
    /\ (CurrentEligible /\ originalImage.Body = "huge")
          => pc \notin {"putWebp", "processed"}
    /\ pc = "failed" =>
          /\ error # None
          /\ response = None
          /\ \A n \in DOMAIN calls :
                calls[n].invocation = invocation => calls[n].item <= idx

\* the first item of a batch of two failed at a write after another of its
\* writes had completed; the second item was never fetched
C5_Witness ==
    /\ pc = "failed"
    /\ idx = 1
    /\ Len(records) = 2
    /\ \E n \in PutsOf(invocation, 1) : calls[n].status = "ok"
    /\ \E n \in PutsOf(invocation, 1) : calls[n].status = "failed"
    /\ CallsOf(invocation, 2, "getObject") = {}

----------------------------------------------------------------------------
(* C6 *)

\* C6 as claimed: every write of the item the handler is at, the optimized
\* one included, carries the content type of its target format.
C6_AllDerived ==
    \A n \in DOMAIN calls :
        (Current(n) /\ calls[n].op = "putObject") =>
            calls[n].ContentType =
                Some(IF calls[n].Body = "webp" THEN IMAGE_ \o webp
                     ELSE LayoutContentType(key))

\* C6 as amended: every write other than the optimized one carries the
\* content type of its target format, whatever was fetched; the optimized
\* write carries the content type fetched with the source object.
C6_DerivedButOptimized ==
    \A n \in DOMAIN calls :
        (Current(n) /\ calls[n].op = "putObject") =>
            calls[n].ContentType =
                IF calls[n].Body = "optimized" THEN originalImage.ContentType
                ELSE Some(IF calls[n].Body = "webp" THEN IMAGE_ \o webp
                          ELSE LayoutContentType(key))

\* the six variants of a .jpg source fetched as image/png were written
C6_Witness ==
    /\ pc = "processed"
    /\ LowerExtension(key) = jpg
    /\ originalImage.ContentType = Some(IMAGE_ \o png)
    /\ {calls[n].Body : n \in PutsOf(invocation, idx)} = AllBuffers

----------------------------------------------------------------------------
(* C7 *)

\* the items that were processed to the end
Succeeded ==
    {<<console[n].invocation, console[n].item>> :
        n \in {m \in DOMAIN console :
                  console[m].line = "Successfully processed"}}

\* C7: the destination keys depend on the source key alone: whenever an
\* item was processed to the end, every write any delivery issues for the
\* same source key goes to one of the keys that item wrote, so that two
\* completed runs on one source key write the same set of keys and the
\* bucket holds no other key for it.
C7_KeysFromSourceKeyAlone ==
    \A r \in Succeeded :
        \A n \in DOMAIN calls :
            ( /\ calls[n].op = "putObject"
              /\ SourceKeys(calls[n].invocation, calls[n].item)
                    = SourceKeys(r[1], r[2]) )
            => calls[n].Key \in PutKeys(r[1], r[2])

\* two deliveries of one event were both processed to the end, on objects
\* fetched with different content types
C7_Witness ==
    \E r, q \in Succeeded :
        /\ r[1] # q[1]
        /\ SourceKeys(r[1], r[2]) = SourceKeys(q[1], q[2])
        /\ PutKeys(r[1], r[2]) = PutKeys(q[1], q[2])
        /\ \E m \in PutsOf(r[1], r[2]), n \in PutsOf(q[1], q[2]) :
              /\ calls[m].Body = "optimized" /\ calls[n].Body = "optimized"
              /\ calls[m].ContentType # calls[n].ContentType

====
